---- MODULE Spec2Model ----
(***************************************************************************)
(* Model of the Pocket Relay tunnel protocol codec (src/src/lib.rs):       *)
(* the byte writer (MessageSerializer), the byte reader                    *)
(* (MessageDeserializer), the header, the tagged message body and the      *)
(* top-level serialize_message / deserialize_message functions.            *)
(*                                                                         *)
(* Values.  A byte is an integer in 0..255.  A u32 is kept as its two      *)
(* 16-bit halves [hi, lo] so that every u32, u32::MAX included, is         *)
(* representable.  A String is kept as its (valid UTF-8) bytes.  A byte    *)
(* string (Vec<u8>, &[u8], [u8; N]) is kept as its sequence of runs        *)
(* [byte, count] of equal bytes, in normal form (counts positive, adjacent *)
(* runs of different bytes), so that two byte strings are equal exactly    *)
(* when their representations are, and a string of 65536 bytes is small.   *)
(***************************************************************************)
EXTENDS Integers, Sequences, FiniteSets, TLC

\* ------------------------------------------------------------------ bounds
\* Longest "small" token / payload, in characters / bytes.
MaxLen == 2
\* Longest buffer handed to a bare reader, and largest requested length.
MaxBuf == 4
\* Lengths above the 16-bit range tried for oversized tokens / payloads.
MaxOver == 2
\* Number of bytes cut at the tail of a long encoding.
MaxTail == 2

\* --------------------------------------------------------- program constants
VERSION == 1
U16_MAX == 65535
INITIATE == 0
INITIATED == 1
FORWARD == 2
KEEP_ALIVE == 3

Byte == 0..255

\* u32 values, as 16-bit halves
U32(hi, lo) == [hi |-> hi, lo |-> lo]

\* ------------------------------------------------------------- byte strings
Run(b, n) == [byte |-> b, count |-> n]

\* The byte string of n bytes b
Filled(n, b) == IF n = 0 THEN <<>> ELSE <<Run(b, n)>>

\* Number of bytes: slice.len(), Vec::len()
RECURSIVE Length(_)
Length(s) == IF s = <<>> THEN 0 ELSE s[1].count + Length(Tail(s))

\* Concatenation: a followed by b
Join(a, b) ==
    IF a = <<>> THEN b
    ELSE IF b = <<>> THEN a
    ELSE IF a[Len(a)].byte = b[1].byte
        THEN SubSeq(a, 1, Len(a) - 1)
             \o <<Run(b[1].byte, a[Len(a)].count + b[1].count)>> \o Tail(b)
    ELSE a \o b

\* The first k bytes of s (all of s when it is shorter)
RECURSIVE Take(_, _)
Take(s, k) ==
    IF k <= 0 \/ s = <<>> THEN <<>>
    ELSE IF s[1].count <= k THEN <<s[1]>> \o Take(Tail(s), k - s[1].count)
    ELSE <<Run(s[1].byte, k)>>

\* s without its first k bytes
RECURSIVE Drop(_, _)
Drop(s, k) ==
    IF k <= 0 \/ s = <<>> THEN s
    ELSE IF s[1].count <= k THEN Drop(Tail(s), k - s[1].count)
    ELSE <<Run(s[1].byte, s[1].count - k)>> \o Tail(s)

\* s[i], 0-based as in Rust; i < Length(s)
At(s, i) == Drop(s, i)[1].byte

\* The byte string of a sequence of bytes
RECURSIVE Of(_)
Of(bytes) ==
    IF bytes = <<>> THEN <<>>
    ELSE Join(Of(SubSeq(bytes, 1, Len(bytes) - 1)), Filled(1, bytes[Len(bytes)]))

\* The sequence of bytes of a byte string
RECURSIVE Expand(_)
Expand(s) ==
    IF s = <<>> THEN <<>>
    ELSE [i \in 1..s[1].count |-> s[1].byte] \o Expand(Tail(s))

\* ------------------------------------------------------------------- errors
UnknownMessageType == [kind |-> "UnknownMessageType", n |-> 0]
Incomplete(n) == [kind |-> "Incomplete", n |-> n]
NoError == [kind |-> "None", n |-> 0]

\* Result<T, MessageError> of a reader operation, with the reader it leaves
Ok(v, r) == [ok |-> TRUE, value |-> v, error |-> NoError, reader |-> r]
Err(e, r) == [ok |-> FALSE, value |-> <<>>, error |-> e, reader |-> r]

\* ------------------------------------------------------ MessageDeserializer
new(buffer) == [buffer |-> buffer, cursor |-> 0]

capacity(r) == Length(r.buffer)

\* usize subtraction: capacity - cursor
len(r) == capacity(r) - r.cursor

is_empty(r) == len(r) < 1

\* buffer[a..b] of Rust: 0-based, half-open; a <= b <= Length(buffer)
Slice(buffer, a, b) == Take(Drop(buffer, a), b - a)

read_u8(r) ==
    IF is_empty(r)
    THEN Err(Incomplete(1), r)
    ELSE Ok(At(r.buffer, r.cursor), [r EXCEPT !.cursor = r.cursor + 1])

read_fixed(r, LENGTH) ==
    IF len(r) < LENGTH
    THEN Err(Incomplete(LENGTH), r)
    ELSE Ok(Slice(r.buffer, r.cursor, r.cursor + LENGTH),
            [r EXCEPT !.cursor = r.cursor + LENGTH])

u16_from_be_bytes(b) == At(b, 0) * 256 + At(b, 1)

u32_from_be_bytes(b) ==
    U32(At(b, 0) * 256 + At(b, 1), At(b, 2) * 256 + At(b, 3))

read_u16(r) ==
    LET value == read_fixed(r, 2)
    IN IF ~value.ok THEN value
       ELSE Ok(u16_from_be_bytes(value.value), value.reader)

read_u32(r) ==
    LET value == read_fixed(r, 4)
    IN IF ~value.ok THEN value
       ELSE Ok(u32_from_be_bytes(value.value), value.reader)

\* Variants of read_bytes with a fault: the failed read skips what is left;
\* the error carries the requested length; the check is on the capacity.
read_bytes_skips(r, length) ==
    IF len(r) < length
    THEN Err(Incomplete(len(r)), [r EXCEPT !.cursor = capacity(r)])
    ELSE Ok(Slice(r.buffer, r.cursor, r.cursor + length),
            [r EXCEPT !.cursor = r.cursor + length])

read_bytes_requested(r, length) ==
    IF len(r) < length
    THEN Err(Incomplete(length), r)
    ELSE Ok(Slice(r.buffer, r.cursor, r.cursor + length),
            [r EXCEPT !.cursor = r.cursor + length])

read_bytes_capacity(r, length) ==
    IF capacity(r) < length
    THEN Err(Incomplete(len(r)), r)
    ELSE Ok(Slice(r.buffer, r.cursor, r.cursor + length),
            [r EXCEPT !.cursor = r.cursor + length])

read_bytes(r, length) ==
    IF len(r) < length
    THEN Err(Incomplete(len(r)), r)
    ELSE Ok(Slice(r.buffer, r.cursor, r.cursor + length),
            [r EXCEPT !.cursor = r.cursor + length])

\* -------------------------------------------------------- MessageSerializer
\* MessageSerializer::default(): an empty buffer
default == <<>>

write_u8(buffer, value) == Join(buffer, Filled(1, value))

write_bytes(buffer, value) == Join(buffer, value)

u16_to_be_bytes(value) == Of(<<value \div 256, value % 256>>)

u32_to_be_bytes(value) ==
    Join(u16_to_be_bytes(value.hi), u16_to_be_bytes(value.lo))

write_u16(buffer, value) == write_bytes(buffer, u16_to_be_bytes(value))

write_u32(buffer, value) == write_bytes(buffer, u32_to_be_bytes(value))

into_inner(buffer) == buffer

\* Variant of as_u16 with a fault: the cast saturates
as_u16_saturating(x) == IF x > U16_MAX THEN U16_MAX ELSE x

\* `x as u16` on a usize: the low 16 bits
as_u16(x) == x % (U16_MAX + 1)

\* ------------------------------------------------------ String (UTF-8 text)
\* core::str::utf8_char_width, 0 for a byte that cannot start a character
utf8_char_width(b) ==
    IF b < 128 THEN 1
    ELSE IF b \in 194..223 THEN 2
    ELSE IF b \in 224..239 THEN 3
    ELSE IF b \in 240..244 THEN 4
    ELSE 0

safe_get(s, i) == IF i <= Len(s) THEN s[i] ELSE 0

is_cont(b) == b \in 128..191

\* Second byte of a 3- or 4-byte character, by its first byte
second_ok(first, b) ==
    \/ first = 224 /\ b \in 160..191
    \/ first \in 225..236 /\ b \in 128..191
    \/ first = 237 /\ b \in 128..159
    \/ first \in 238..239 /\ b \in 128..191
    \/ first = 240 /\ b \in 144..191
    \/ first \in 241..243 /\ b \in 128..191
    \/ first = 244 /\ b \in 128..143

\* Bytes accepted of the character that starts at s[i] (1-based): the whole
\* character when `valid`, else the maximal invalid part that is replaced.
utf8_scan(s, i) ==
    LET w == utf8_char_width(s[i])
    IN IF w = 1 THEN [valid |-> TRUE, n |-> 1]
       ELSE IF w = 2 THEN
            IF is_cont(safe_get(s, i + 1))
            THEN [valid |-> TRUE, n |-> 2] ELSE [valid |-> FALSE, n |-> 1]
       ELSE IF w = 3 THEN
            IF ~second_ok(s[i], safe_get(s, i + 1)) THEN [valid |-> FALSE, n |-> 1]
            ELSE IF ~is_cont(safe_get(s, i + 2)) THEN [valid |-> FALSE, n |-> 2]
            ELSE [valid |-> TRUE, n |-> 3]
       ELSE IF w = 4 THEN
            IF ~second_ok(s[i], safe_get(s, i + 1)) THEN [valid |-> FALSE, n |-> 1]
            ELSE IF ~is_cont(safe_get(s, i + 2)) THEN [valid |-> FALSE, n |-> 2]
            ELSE IF ~is_cont(safe_get(s, i + 3)) THEN [valid |-> FALSE, n |-> 3]
            ELSE [valid |-> TRUE, n |-> 4]
       ELSE [valid |-> FALSE, n |-> 1]

\* U+FFFD REPLACEMENT CHARACTER in UTF-8
REPLACEMENT == <<239, 191, 189>>

RECURSIVE lossy_from(_, _)
lossy_from(s, i) ==
    IF i > Len(s) THEN <<>>
    ELSE LET c == utf8_scan(s, i)
         IN (IF c.valid THEN SubSeq(s, i, i + c.n - 1) ELSE REPLACEMENT)
            \o lossy_from(s, i + c.n)

\* String::from_utf8_lossy(bytes).to_string(), as the bytes of the String.
\* Input that is already valid (all ASCII is) is borrowed unchanged.
from_utf8_lossy(bytes) ==
    IF \A i \in 1..Len(bytes) : bytes[i].byte < 128 THEN bytes
    ELSE Of(lossy_from(Expand(bytes), 1))

\* ------------------------------------------------------ TunnelMessageHeader
TunnelMessageHeader_read(buf) ==
    LET version == read_u8(buf)
    IN IF ~version.ok THEN version
       ELSE LET tunnel_id == read_u32(version.reader)
            IN IF ~tunnel_id.ok THEN tunnel_id
               ELSE Ok([version |-> version.value, tunnel_id |-> tunnel_id.value],
                       tunnel_id.reader)

TunnelMessageHeader_write(header, buf) ==
    write_u32(write_u8(buf, header.version), header.tunnel_id)

\* -------------------------------------------------------- TunnelMessageType
\* Variant of try_from with a fault: one discriminant too many is accepted
try_from_one_more(value) ==
    IF value \in INITIATE..(KEEP_ALIVE + 1)
    THEN [ok |-> TRUE, ty |-> value]
    ELSE [ok |-> FALSE, ty |-> value]

TunnelMessageType_try_from(value) ==
    IF value \in {INITIATE, INITIATED, FORWARD, KEEP_ALIVE}
    THEN [ok |-> TRUE, ty |-> value]
    ELSE [ok |-> FALSE, ty |-> value]

\* ------------------------------------------------------------ TunnelMessage
Initiate(token) == [type |-> "Initiate", association_token |-> token]
Initiated(id) == [type |-> "Initiated", tunnel_id |-> id]
Forward(index, message) == [type |-> "Forward", index |-> index, message |-> message]
KeepAlive == [type |-> "KeepAlive"]

TunnelMessage_read(read) ==
    LET ty == read_u8(read)
    IN IF ~ty.ok THEN ty
       ELSE LET kind == TunnelMessageType_try_from(ty.value)
            IN IF ~kind.ok THEN Err(UnknownMessageType, ty.reader)
       ELSE IF kind.ty = INITIATE THEN
            LET length == read_u16(ty.reader)
            IN IF ~length.ok THEN length
               ELSE LET token_bytes == read_bytes(length.reader, length.value)
                    IN IF ~token_bytes.ok THEN token_bytes
                       ELSE Ok(Initiate(from_utf8_lossy(token_bytes.value)),
                               token_bytes.reader)
       ELSE IF kind.ty = INITIATED THEN
            LET tunnel_id == read_u32(ty.reader)
            IN IF ~tunnel_id.ok THEN tunnel_id
               ELSE Ok(Initiated(tunnel_id.value), tunnel_id.reader)
       ELSE IF kind.ty = FORWARD THEN
            LET index == read_u8(ty.reader)
            IN IF ~index.ok THEN index
               ELSE LET length == read_u16(index.reader)
                    IN IF ~length.ok THEN length
                       ELSE LET message == read_bytes(length.reader, length.value)
                            IN IF ~message.ok THEN message
                               ELSE Ok(Forward(index.value, message.value),
                                       message.reader)
       ELSE Ok(KeepAlive, ty.reader)

\* debug_assert!(len < u16::MAX as usize): the condition asserted
length_assertion(length) == length < U16_MAX

\* A failed debug_assert! panics, in a build with debug assertions only
debug_assert(debug_assertions, cond) == debug_assertions /\ ~cond

\* The write leaves the buffer and either returns or panics
Wrote(buffer) == [panicked |-> FALSE, buffer |-> buffer]
Panicked(buffer) == [panicked |-> TRUE, buffer |-> buffer]

TunnelMessage_write(message, write, debug_assertions) ==
    IF message.type = "Initiate" THEN
        IF debug_assert(debug_assertions,
                        length_assertion(Length(message.association_token)))
        THEN Panicked(write)
        ELSE Wrote(write_bytes(
                     write_u16(write_u8(write, INITIATE),
                               as_u16(Length(message.association_token))),
                     message.association_token))
    ELSE IF message.type = "Initiated" THEN
        Wrote(write_u32(write_u8(write, INITIATED), message.tunnel_id))
    ELSE IF message.type = "Forward" THEN
        IF debug_assert(debug_assertions, length_assertion(Length(message.message)))
        THEN Panicked(write_u8(write, FORWARD))
        ELSE Wrote(write_bytes(
                     write_u16(write_u8(write_u8(write, FORWARD), message.index),
                               as_u16(Length(message.message))),
                     message.message))
    ELSE Wrote(write_u8(write, KEEP_ALIVE))

\* ----------------------------------------------------- top-level functions
\* serialize_message: the Vec<u8> returned, or a panic (nothing is returned)
serialize_message(tunnel_id, message, debug_assertions) ==
    LET header == [version |-> VERSION, tunnel_id |-> tunnel_id]
        write == TunnelMessage_write(
                     message, TunnelMessageHeader_write(header, default),
                     debug_assertions)
    IN IF write.panicked THEN [panicked |-> TRUE, bytes |-> <<>>]
       ELSE [panicked |-> FALSE, bytes |-> into_inner(write.buffer)]

\* Variant of deserialize_message with a fault: unread bytes are an error
deserialize_message_strict(buffer) ==
    LET header == TunnelMessageHeader_read(new(buffer))
    IN IF ~header.ok THEN header
       ELSE LET message == TunnelMessage_read(header.reader)
            IN IF ~message.ok THEN message
               ELSE IF ~is_empty(message.reader)
                    THEN Err(Incomplete(len(message.reader)), message.reader)
               ELSE Ok([header |-> header.value, message |-> message.value],
                       message.reader)

\* deserialize_message: Ok(TunnelPacket) or Err, with the reader as it is left
deserialize_message(buffer) ==
    LET header == TunnelMessageHeader_read(new(buffer))
    IN IF ~header.ok THEN header
       ELSE LET message == TunnelMessage_read(header.reader)
            IN IF ~message.ok THEN message
               ELSE Ok([header |-> header.value, message |-> message.value],
                       message.reader)

\* =================================================================== inputs
\* Characters a small token is made of (1-, 2-, 3- and 4-byte UTF-8)
Chars == {<<65>>, <<195, 169>>, <<226, 130, 172>>, <<240, 159, 152, 128>>}

RECURSIVE TokensOf(_)
TokensOf(n) ==
    IF n = 0 THEN {<<>>}
    ELSE LET shorter == TokensOf(n - 1)
         IN shorter \cup {t \o c : t \in shorter, c \in Chars}

PayloadBytes == {0, 170, 187, 255}

RECURSIVE SeqsUpTo(_, _)
SeqsUpTo(S, n) ==
    IF n = 0 THEN {<<>>}
    ELSE LET shorter == SeqsUpTo(S, n - 1)
         IN shorter \cup {Append(t, b) : t \in shorter, b \in S}

TunnelIds == {U32(0, 1), U32(0, 7), U32(258, 772), U32(65535, 65535)}

Indices == {0, 2, 255}

SmallMessages ==
    {Initiate(Of(t)) : t \in TokensOf(MaxLen)}
    \cup {Initiated(id) : id \in TunnelIds}
    \cup {Forward(i, Of(m)) : i \in Indices, m \in SeqsUpTo(PayloadBytes, MaxLen)}
    \cup {KeepAlive}

\* Lengths around the 16-bit limit, and one past twice the 16-bit range
LongLengths ==
    (U16_MAX - 1)..(U16_MAX + MaxOver) \cup {2 * (U16_MAX + 1) + MaxOver}

LongMessages ==
    {Initiate(Filled(n, 65)) : n \in LongLengths}
    \cup {Forward(2, Filled(n, 170)) : n \in LongLengths}

\* Bytes that may follow a packet in the buffer handed to the decoder
Trailers == {<<0>>, <<3>>, <<255, 1>>, <<65, 65, 65>>}

\* Cut points tried on an encoding of n bytes: every one near the head (all
\* of a small message) and the last ones of a long encoding
HeadCut == 9 + 4 * MaxLen + 2
Cuts(n) == {k \in 0..(n - 1) : k <= HeadCut \/ k >= n - MaxTail}

\* Length of the variable-length field of a message (0 when it has none)
VarLen(m) ==
    IF m.type = "Initiate" THEN Length(m.association_token)
    ELSE IF m.type = "Forward" THEN Length(m.message)
    ELSE 0

\* ==================================================================== state
VARIABLES
    debug_assertions,   \* the build: are debug assertions compiled in
    tunnel_id,          \* argument of serialize_message
    message,            \* argument of serialize_message
    pc,                 \* position of the caller
    encoded,            \* what serialize_message returned (or its panic)
    buffer,             \* the bytes handed to deserialize_message
    shape,              \* how buffer relates to the encoding
    packet,             \* what deserialize_message returned
    reader,             \* a MessageDeserializer driven directly
    last                \* the last reader operation and its result

vars == <<debug_assertions, tunnel_id, message, pc, encoded, buffer, shape,
          packet, reader, last>>

NoCall == [op |-> "none", arg |-> 0, before |-> new(<<>>),
           ok |-> TRUE, value |-> <<>>, error |-> NoError]

NoPacket == Err(NoError, new(<<>>))

NotEncoded == [panicked |-> FALSE, bytes |-> <<>>]

ReaderIdle == reader = new(<<>>) /\ last = NoCall

CodecIdle ==
    /\ debug_assertions = FALSE
    /\ tunnel_id = U32(0, 0)
    /\ message = KeepAlive
    /\ encoded = NotEncoded

\* ------------------------------------------------- encode / deliver / decode
Init ==
    /\ debug_assertions \in BOOLEAN
    /\ \/ tunnel_id \in TunnelIds /\ message \in SmallMessages
       \/ tunnel_id = U32(0, 7) /\ message \in LongMessages
    /\ pc = "input"
    /\ encoded = NotEncoded
    /\ buffer = <<>>
    /\ shape = "none"
    /\ packet = NoPacket
    /\ ReaderIdle

Serialize ==
    /\ pc = "input"
    /\ encoded' = serialize_message(tunnel_id, message, debug_assertions)
    /\ pc' = IF encoded'.panicked THEN "panicked" ELSE "encoded"
    /\ UNCHANGED <<debug_assertions, tunnel_id, message, buffer, shape, packet,
                   reader, last>>

\* The whole encoding reaches the decoder
Deliver ==
    /\ pc = "encoded"
    /\ buffer' = encoded.bytes
    /\ shape' = "whole"
    /\ pc' = "received"
    /\ UNCHANGED <<debug_assertions, tunnel_id, message, encoded, packet,
                   reader, last>>

\* Only the first k bytes of the encoding reach the decoder
Truncate(k) ==
    /\ pc = "encoded"
    /\ buffer' = Take(encoded.bytes, k)
    /\ shape' = "prefix"
    /\ pc' = "received"
    /\ UNCHANGED <<debug_assertions, tunnel_id, message, encoded, packet,
                   reader, last>>

\* The encoding reaches the decoder followed by other bytes
Extend(trailer) ==
    /\ pc = "encoded"
    /\ buffer' = Join(encoded.bytes, Of(trailer))
    /\ shape' = "extended"
    /\ pc' = "received"
    /\ UNCHANGED <<debug_assertions, tunnel_id, message, encoded, packet,
                   reader, last>>

Deserialize ==
    /\ pc = "received"
    /\ packet' = deserialize_message(buffer)
    /\ pc' = "decoded"
    /\ UNCHANGED <<debug_assertions, tunnel_id, message, encoded, buffer, shape,
                   reader, last>>

Next ==
    \/ Serialize
    \/ Deliver
    \/ \E k \in Cuts(Length(encoded.bytes)) : Truncate(k)
    \/ \E trailer \in Trailers : Extend(trailer)
    \/ Deserialize

Spec == Init /\ [][Next]_vars

\* --------------------------------------------------- decode of any buffer
Versions == {1, 255}

IdBytes == {<<0, 0, 0, 7>>, <<255, 255, 255, 255>>}

TailBytes == {0, 1, 255}

\* Any header, any discriminant byte, any short tail
RawBuffers ==
    LET heads == {Of(<<v>> \o id \o <<d>>) :
                     v \in Versions, id \in IdBytes, d \in Byte}
        tails == {Of(t) : t \in SeqsUpTo(TailBytes, MaxLen + 1)}
    IN {Join(h, t) : h \in heads, t \in tails}

InitDecode ==
    /\ CodecIdle
    /\ pc = "received"
    /\ buffer \in RawBuffers
    /\ shape = "raw"
    /\ packet = NoPacket
    /\ ReaderIdle

NextDecode == Deserialize

SpecDecode == InitDecode /\ [][NextDecode]_vars

\* ------------------------------------------------- the reader on its own
ReaderBytes == {1, 2, 255}

InitReader ==
    /\ CodecIdle
    /\ pc = "reading"
    /\ buffer \in {Of(b) : b \in SeqsUpTo(ReaderBytes, MaxBuf)}
    /\ shape = "raw"
    /\ packet = NoPacket
    /\ reader = new(buffer)
    /\ last = NoCall

Called(op, arg, res) ==
    /\ pc = "reading"
    /\ reader' = res.reader
    /\ last' = [op |-> op, arg |-> arg, before |-> reader,
                ok |-> res.ok, value |-> res.value, error |-> res.error]
    /\ UNCHANGED <<debug_assertions, tunnel_id, message, pc, encoded, buffer,
                   shape, packet>>

ReadU8 == Called("read_u8", 1, read_u8(reader))

ReadFixed(LENGTH) == Called("read_fixed", LENGTH, read_fixed(reader, LENGTH))

ReadU16 == Called("read_u16", 2, read_u16(reader))

ReadU32 == Called("read_u32", 4, read_u32(reader))

ReadBytes(length) == Called("read_bytes", length, read_bytes(reader, length))

\* Lengths a caller may ask for: up to past the buffer, and a very long one
Requests == 0..(MaxBuf + 1) \cup {U16_MAX}

NextReader ==
    \/ ReadU8
    \/ \E LENGTH \in 0..(MaxBuf + 1) : ReadFixed(LENGTH)
    \/ ReadU16
    \/ ReadU32
    \/ \E length \in Requests : ReadBytes(length)

SpecReader == InitReader /\ [][NextReader]_vars

\* =================================================================== claims
\* What the wire format prescribes, written from the format table
BE16(n) == <<n \div 256, n % 256>>
BE32(id) == BE16(id.hi) \o BE16(id.lo)

Layout(id, m) ==
    IF m.type = "Initiate"
        THEN Join(Of(<<1>> \o BE32(id) \o <<0>>
                     \o BE16(Length(m.association_token))),
                  m.association_token)
    ELSE IF m.type = "Initiated"
        THEN Of(<<1>> \o BE32(id) \o <<1>> \o BE32(m.tunnel_id))
    ELSE IF m.type = "Forward"
        THEN Join(Of(<<1>> \o BE32(id) \o <<2, m.index>>
                     \o BE16(Length(m.message))),
                  m.message)
    ELSE Of(<<1>> \o BE32(id) \o <<3>>)

\* Bytes of an encoding that come before the variable-length field
FixedPart(m) == IF m.type = "Initiate" THEN 8 ELSE 9

\* The Incomplete(n) prescribed for the first k bytes of the encoding of m
PrescribedN(m, k) ==
    IF k = 0 THEN 1
    ELSE IF k < 5 THEN 4
    ELSE IF k = 5 THEN 1
    ELSE IF m.type = "Initiate" THEN (IF k < 8 THEN 2 ELSE k - 8)
    ELSE IF m.type = "Initiated" THEN 4
    ELSE IF m.type = "Forward"
        THEN (IF k = 6 THEN 1 ELSE IF k < 9 THEN 2 ELSE k - 9)
    ELSE 0

\* Bytes a successful reader operation returns
Width(op, arg) ==
    IF op = "read_u8" THEN 1
    ELSE IF op = "read_u16" THEN 2
    ELSE IF op = "read_u32" THEN 4
    ELSE arg

\* C1: round trip. For every tunnel_id and every message whose token /
\* payload is at most 65535 bytes long, serialize_message returns and
\* deserialize_message of what it returned is Ok with header
\* {version = 1, tunnel_id} and a message equal to the input.
C1_RoundTrip ==
    VarLen(message) <= U16_MAX =>
        /\ pc # "panicked"
        /\ (pc = "decoded" /\ shape = "whole") =>
              /\ packet.ok
              /\ packet.value = [header |-> [version |-> 1, tunnel_id |-> tunnel_id],
                                 message |-> message]

\* C2: truncation. Every strict prefix of an encoding decodes to
\* Err(Incomplete(n)), n the width of the fixed-size field that could not be
\* read or, inside the token / payload, the number of bytes still remaining.
C2_Truncation ==
    (pc = "decoded" /\ shape = "prefix") =>
        /\ ~packet.ok
        /\ packet.error = Incomplete(PrescribedN(message, Length(buffer)))

\* C3: unknown type. A buffer of at least 6 bytes whose 6th byte is in
\* 0x04..0xFF decodes to Err(UnknownMessageType) with exactly 6 bytes
\* consumed, whatever the other bytes; a 6th byte in 0x00..0x03 never gives
\* UnknownMessageType.
C3_UnknownType ==
    (pc = "decoded" /\ shape = "raw" /\ Length(buffer) >= 6) =>
        /\ At(buffer, 5) \in 4..255 =>
              /\ ~packet.ok
              /\ packet.error = UnknownMessageType
              /\ packet.reader.cursor = 6
        /\ At(buffer, 5) \in 0..3 => packet.error # UnknownMessageType

C3_Witness ==
    /\ pc = "decoded"
    /\ shape = "raw"
    /\ Length(buffer) > 6
    /\ At(buffer, 5) = 255
    /\ At(buffer, 0) # VERSION
    /\ packet.error = UnknownMessageType

\* C4: frame effect of the reader operations. A failed read leaves the
\* cursor and the buffer unchanged; a successful read advances the cursor by
\* exactly the number of bytes returned (1, N, 2, 4, length) and changes
\* nothing else.
C4_ReadFrame ==
    last.op # "none" =>
        /\ reader.buffer = last.before.buffer
        /\ reader.buffer = buffer
        /\ ~last.ok => reader.cursor = last.before.cursor
        /\ last.ok =>
              /\ reader.cursor = last.before.cursor + Width(last.op, last.arg)
              /\ last.op \in {"read_fixed", "read_bytes"} =>
                    /\ Length(last.value) = last.arg
                    /\ last.value = Slice(buffer, last.before.cursor,
                                          last.before.cursor + last.arg)
              /\ last.op = "read_u8" => last.value = At(buffer, last.before.cursor)

C4_Witness ==
    /\ last.op = "read_bytes"
    /\ last.ok
    /\ last.arg = 2
    /\ last.before.cursor = 1
    /\ reader.cursor = 3

\* C5: the payload of Incomplete. read_u8 fails, with Incomplete(1), exactly
\* when no byte remains; read_fixed<N> (read_u16, read_u32 with N = 2, 4)
\* fails, with Incomplete(N), exactly when fewer than N bytes remain;
\* read_bytes(length) fails, with Incomplete(remaining) and
\* remaining < length, exactly when fewer than length bytes remain. A reader
\* over zero bytes is empty and its read_u8 gives Incomplete(1).
C5_IncompletePayload ==
    last.op # "none" =>
        LET remaining == Length(buffer) - last.before.cursor
            wanted == Width(last.op, last.arg)
        IN /\ ~last.ok <=> remaining < wanted
           /\ (~last.ok /\ last.op # "read_bytes") => last.error = Incomplete(wanted)
           /\ (~last.ok /\ last.op = "read_bytes") =>
                 /\ last.error = Incomplete(remaining)
                 /\ remaining < last.arg
           /\ (Length(buffer) = 0 /\ last.op = "read_u8") =>
                 /\ is_empty(last.before)
                 /\ last.error = Incomplete(1)

C5_Witness ==
    /\ last.op = "read_bytes"
    /\ ~last.ok
    /\ last.arg = 3
    /\ last.error = Incomplete(2)

\* C6: wire layout. For a token / payload of at most 65535 bytes the output
\* of serialize_message is 0x01, the tunnel id big-endian, then the body:
\* Initiate 00 BE16(L) token, Initiated 01 BE32(id), Forward 02 index BE16(L)
\* payload, KeepAlive 03.
C6_WireLayout ==
    VarLen(message) <= U16_MAX =>
        /\ pc # "panicked"
        /\ pc \notin {"input", "panicked"} =>
              /\ encoded.bytes = Layout(tunnel_id, message)
              /\ (tunnel_id = U32(0, 7) /\ message = KeepAlive) =>
                    Expand(encoded.bytes) = <<1, 0, 0, 0, 7, 3>>
              /\ (tunnel_id = U32(0, 1)
                  /\ message = Forward(2, Of(<<170, 187>>))) =>
                    Expand(encoded.bytes) = <<1, 0, 0, 0, 1, 2, 2, 0, 2, 170, 187>>

\* C7: the encoder's length assertion fails exactly when the token / payload
\* length does not fit in 16 bits: in a build with debug assertions, encoding
\* an Initiate or a Forward panics if and only if its length exceeds 65535.
C7_LengthAssertion ==
    (debug_assertions /\ pc # "input" /\ message.type \in {"Initiate", "Forward"}) =>
        (encoded.panicked <=> VarLen(message) > U16_MAX)

\* C8: with assertions disabled, encoding a token / payload of L > 65535
\* bytes reports no error; the length prefix written is L mod 2^16, all L
\* bytes follow it, so the prefix differs from the number of bytes written
\* and decoding the output does not give back the message.
C8_SilentTruncation ==
    (~debug_assertions /\ VarLen(message) > U16_MAX /\ pc # "input") =>
        LET L == VarLen(message)
            at == FixedPart(message)
            prefix == At(encoded.bytes, at - 2) * 256 + At(encoded.bytes, at - 1)
        IN /\ ~encoded.panicked
           /\ prefix = L % 65536
           /\ prefix # L
           /\ Length(encoded.bytes) = at + L
           /\ Drop(encoded.bytes, at) =
                 (IF message.type = "Initiate" THEN message.association_token
                  ELSE message.message)
           /\ (pc = "decoded" /\ shape = "whole") =>
                 ~(packet.ok /\ packet.value.message = message)

C8_Witness ==
    /\ ~debug_assertions
    /\ VarLen(message) = U16_MAX + 2
    /\ pc = "decoded"
    /\ shape = "whole"
    /\ packet.ok
    /\ VarLen(packet.value.message) = 1

\* C9: the reader's cursor stays within the buffer, 0 <= cursor <= capacity,
\* after any sequence of reads, failed or not, so the remaining length never
\* underflows; no read moves the cursor back, and a read that succeeds took
\* its bytes from within the buffer.
C9_CursorInBounds ==
    /\ 0 <= reader.cursor
    /\ reader.cursor <= capacity(reader)
    /\ len(reader) >= 0
    /\ last.before.cursor <= reader.cursor
    /\ (last.op # "none" /\ last.ok) =>
          last.before.cursor + Width(last.op, last.arg) <= capacity(reader)

C9_Witness ==
    /\ last.op = "read_bytes"
    /\ last.arg = U16_MAX
    /\ ~last.ok
    /\ reader.cursor > 0
    /\ reader.cursor < capacity(reader)

\* C10: trailing bytes are ignored. An encoding followed by any other bytes
\* decodes to the same Ok packet as the encoding alone, with the same bytes
\* consumed, none of them past the encoding.
C10_TrailingIgnored ==
    (pc = "decoded" /\ shape = "extended") =>
        LET alone == deserialize_message(encoded.bytes)
        IN /\ alone.ok
           /\ packet.ok
           /\ packet.value = alone.value
           /\ packet.reader.cursor = alone.reader.cursor
           /\ packet.reader.cursor <= Length(encoded.bytes)

C10_Witness ==
    /\ pc = "decoded"
    /\ shape = "extended"
    /\ packet.ok
    /\ packet.value.message = message
    /\ message.type = "Forward"
    /\ packet.reader.cursor < Length(buffer)

====
